---------------------------- MODULE Spec2Model ----------------------------
(***************************************************************************)
(* Model of clarifai_utils/data_upload/datasets/image.py: the three        *)
(* dataset-to-proto converters VisualClassificationDataset,                *)
(* VisualDetectionDataset and VisualSegmentationDataset.                   *)
(*                                                                         *)
(* One instance of one of the three classes is constructed over a one-pass *)
(* iterator of samples; _get_input_protos is then called (possibly more    *)
(* than once).  Python strings are sequences of one-character strings, so  *)
(* that f-string formatting, str() and split/join are computed, Python     *)
(* sequences are TLA+ sequences (index i of Python is index i+1 here).     *)
(***************************************************************************)
EXTENDS Integers, Sequences, FiniteSets, TLC

(***************************************************************************)
(* Bounds of the model.                                                    *)
(***************************************************************************)
MaxSamples == 2    \* samples the upstream iterator yields at most
MaxCalls == 2      \* calls of _get_input_protos on the one instance

(***************************************************************************)
(* Python values: None, int, str and list, in one record shape.            *)
(***************************************************************************)
PyNone == [kind |-> "none", s |-> <<>>, n |-> 0, elems |-> <<>>]
PyInt(n) == [kind |-> "int", s |-> <<>>, n |-> n, elems |-> <<>>]
PyStr(s) == [kind |-> "str", s |-> s, n |-> 0, elems |-> <<>>]
PyList(elems) == [kind |-> "list", s |-> <<>>, n |-> 0, elems |-> elems]

Digit(d) == <<"0", "1", "2", "3", "4", "5", "6", "7", "8", "9">>[d + 1]

RECURSIVE IntToStr(_)
\* str(n) / f"{n}" of a non-negative int: its decimal digits
IntToStr(n) == IF n < 10 THEN <<Digit(n)>>
               ELSE IntToStr(n \div 10) \o <<Digit(n % 10)>>

\* str(v) of an int or a str
str(v) == IF v.kind = "int" THEN IntToStr(v.n) ELSE v.s

RECURSIVE str_split(_, _)
\* s.split(sep) for a one-character separator: the pieces between the
\* occurrences of sep, in order (empty pieces kept)
str_split(s, sep) ==
  IF \A k \in 1..Len(s) : s[k] # sep THEN <<s>>
  ELSE LET k == CHOOSE k \in 1..Len(s) :
                  s[k] = sep /\ \A m \in 1..(k - 1) : s[m] # sep
       IN  <<SubSeq(s, 1, k - 1)>> \o str_split(SubSeq(s, k + 1, Len(s)), sep)

RECURSIVE str_join(_)
\* ''.join(parts)
str_join(parts) ==
  IF parts = <<>> THEN <<>> ELSE Head(parts) \o str_join(Tail(parts))

\* A trimming-only normalisation (str.strip(' ')), used as a mutant of
\* ConceptIdText.
RECURSIVE StripSpaces(_)
StripSpaces(s) ==
  IF s = <<>> THEN s
  ELSE IF Head(s) = " " THEN StripSpaces(Tail(s))
  ELSE IF s[Len(s)] = " " THEN StripSpaces(SubSeq(s, 1, Len(s) - 1))
  ELSE s

ConceptIdTextStrip(label) == <<"i", "d", "-">> \o StripSpaces(label)

\* f"id-{''.join(label.split(' '))}"
ConceptIdText(label) == <<"i", "d", "-">> \o str_join(str_split(label, " "))

\* resources_pb2.Concept(id=f"id-{''.join(label.split(' '))}", name=label, value=1.)
Concept(label) == [id |-> ConceptIdText(label), name |-> label, value |-> 1]

\* f"{self.dataset_id}-{self.split}-{i}" if item.id is None
\*   else f"{self.split}-{str(item.id)}"
InputId(dataset_id, split_name, i, id) ==
  IF id.kind = "none"
    THEN dataset_id \o <<"-">> \o split_name \o <<"-">> \o IntToStr(i)
    ELSE split_name \o <<"-">> \o str(id)

(***************************************************************************)
(* The samples the upstream data source can yield.                         *)
(***************************************************************************)
LabelRedCar == <<"r", "e", "d", " ", "c", "a", "r">>
LabelTabbed == <<" ", "a", "\t", "b", " ">>

\* item.id: None, an int or a str
Ids == {PyNone, PyInt(0), PyStr(<<"a", "-", "0">>)}

\* item.image_path, and the files open(image_path, 'rb') can read
ImagePaths == {"ok.jpg", "missing.jpg"}
ReadableFiles == {"ok.jpg"}

\* item.label of a classification sample: a bare label or a list of labels
ClassificationLabels ==
  { PyStr(LabelRedCar), PyInt(7), PyList(<<>>),
    PyList(<<PyStr(LabelTabbed)>>),
    PyList(<<PyStr(LabelTabbed), PyStr(LabelRedCar)>>),
    PyList(<<PyStr(LabelRedCar), PyInt(7)>>) }

\* item.classes of a detection or segmentation sample
ClassesLists == { <<>>, <<LabelRedCar>>, <<LabelTabbed, LabelRedCar>> }

\* item.bboxes: boxes [xmin, ymin, xmax, ymax]
BboxLists == { <<>>, <<<<10, 20, 30, 40>>>>,
               <<<<1, 2, 3, 4>>, <<10, 20, 30, 40>>>> }

\* item.polygons: polygons [[x, y], ..., [x, y]]
PolygonLists == { <<>>, <<<<<<5, 8>>, <<1, 2>>, <<3, 4>>>>>>,
                  <<<<<<0, 9>>>>, <<<<5, 8>>, <<1, 2>>, <<3, 4>>>>>> }

\* What a sample with an unreadable image carries besides its path is never
\* used: open() fails before any record is built from it.  One such sample
\* per variant is enough, chosen so that it would also fail later on (an
\* int label, a box without a label).
ClassificationItems ==
  { it \in [image_path : ImagePaths, id : Ids, label : ClassificationLabels] :
      it.image_path \in ReadableFiles
        \/ (it.id = PyNone /\ it.label = PyInt(7)) }
DetectionItems ==
  { it \in [image_path : ImagePaths, id : Ids, classes : ClassesLists,
            bboxes : BboxLists] :
      it.image_path \in ReadableFiles
        \/ (it.id = PyNone /\ it.classes = <<>> /\ Len(it.bboxes) = 1) }
SegmentationItems ==
  { it \in [image_path : ImagePaths, id : Ids, classes : ClassesLists,
            polygons : PolygonLists] :
      it.image_path \in ReadableFiles
        \/ (it.id = PyNone /\ it.classes = <<>> /\ Len(it.polygons) = 1) }

Variants == {"classification", "detection", "segmentation"}

Items(v) == IF v = "classification" THEN ClassificationItems
            ELSE IF v = "detection" THEN DetectionItems
            ELSE SegmentationItems

DatasetIds == { <<"a">> }
Splits == { <<"a">>, <<"b">> }

NoItem == [image_path |-> "none"]
NoText == <<>>

(***************************************************************************)
(* State.                                                                  *)
(***************************************************************************)
VARIABLES
  variant,            \* which of the three classes the instance is
  dataset_id,         \* self.dataset_id
  split,              \* self.split
  datagen_yielded,    \* self.datagen_object: the samples it has yielded so far
  datagen_exhausted,  \* self.datagen_object: it has raised StopIteration
  all_input_protos,   \* self._all_input_protos
  annotation_protos,  \* self._annotation_protos (detection)
  mask_protos,        \* self._mask_protos (segmentation)
  pc,                 \* position of the caller / of _get_input_protos
  enum_count,         \* the counter of enumerate(self.datagen_object)
  i,                  \* the local i (outer and inner loop share the name)
  item,               \* the local item
  input_id,           \* the local input_id
  inner_next,         \* position of the inner loop's iterator
  calls,              \* calls of _get_input_protos started so far
  outcomes            \* how each finished call ended, in call order

vars == <<variant, dataset_id, split, datagen_yielded, datagen_exhausted,
          all_input_protos, annotation_protos, mask_protos, pc, enum_count,
          i, item, input_id, inner_next, calls, outcomes>>

config == <<variant, dataset_id, split>>
datagen == <<datagen_yielded, datagen_exhausted>>
buffers == <<all_input_protos, annotation_protos, mask_protos>>
locals == <<enum_count, i, item, input_id, inner_next>>

\* ClarifaiDataset.__init__(datagen_object, dataset_id, split): the base
\* class keeps its arguments and creates the empty input buffer
BaseInit ==
  /\ dataset_id \in DatasetIds
  /\ split \in Splits
  /\ datagen_yielded = <<>>
  /\ datagen_exhausted = FALSE
  /\ all_input_protos = <<>>

\* __init__ of the three classes; no call is in progress
Init ==
  /\ variant \in Variants
  /\ BaseInit
  /\ annotation_protos = <<>>
  /\ mask_protos = <<>>
  /\ pc = "idle"
  /\ enum_count = 0
  /\ i = 0
  /\ item = NoItem
  /\ input_id = NoText
  /\ inner_next = 0
  /\ calls = 0
  /\ outcomes = <<>>

(***************************************************************************)
(* Proto construction.                                                     *)
(***************************************************************************)
\* open(image_path, 'rb').read() succeeds
CanRead(image_path) == image_path \in ReadableFiles

\* item.label if isinstance(item.label, list) else [item.label]
NormalizeLabel(label) == IF label.kind = "list" THEN label.elems ELSE <<label>>

\* _label.split(' ') is defined for every label: each one is a str
AllStr(labels) == \A k \in 1..Len(labels) : labels[k].kind = "str"

\* VisualClassificationDataset.create_input_protos
ClassificationInputProto(image_path, labels, id, ds, metadata) ==
  [id |-> id, dataset_ids |-> <<ds>>, image |-> image_path,
   concepts |-> [k \in 1..Len(labels) |-> Concept(labels[k].s)],
   metadata |-> metadata]

\* Mutant of InputImageProto: the arguments input_id and dataset_id exchanged.
InputImageProtoSwapped(image_path, id, ds, metadata) ==
  [id |-> ds, dataset_ids |-> <<id>>, image |-> image_path,
   concepts |-> <<>>, metadata |-> metadata]

\* VisualDetectionDataset.create_input_protos and
\* VisualSegmentationDataset.create_input_protos
InputImageProto(image_path, id, ds, metadata) ==
  [id |-> id, dataset_ids |-> <<ds>>, image |-> image_path,
   concepts |-> <<>>, metadata |-> metadata]

\* Struct() / metadata.update({"label": labels, "split": self.split})
EmptyStruct == [label |-> <<>>, split |-> <<>>]
LabelSplitStruct(labels, split_name) == [label |-> labels, split |-> split_name]

\* Mutant of create_annotation_proto: rows and columns exchanged.
create_annotation_proto_swapped(label, annotations, id, ds) ==
  [input_id |-> id,
   regions |-> << [bounding_box |-> [top_row |-> annotations[1],
                                     left_col |-> annotations[2],
                                     bottom_row |-> annotations[3],
                                     right_col |-> annotations[4]],
                   concepts |-> <<Concept(label)>>] >>]

\* VisualDetectionDataset.create_annotation_proto
create_annotation_proto(label, annotations, id, ds) ==
  [input_id |-> id,
   regions |-> << [bounding_box |-> [top_row |-> annotations[2],
                                     left_col |-> annotations[1],
                                     bottom_row |-> annotations[4],
                                     right_col |-> annotations[3]],
                   concepts |-> <<Concept(label)>>] >>]

\* VisualSegmentationDataset.create_mask_proto
create_mask_proto(label, polygons, id, ds) ==
  [input_id |-> id,
   regions |-> << [polygon |-> [k \in 1..Len(polygons) |->
                                  [row |-> polygons[k][2],
                                   col |-> polygons[k][1],
                                   visibility |-> "VISIBLE"]],
                   concepts |-> <<Concept(label)>>] >>]

(***************************************************************************)
(* How a call ends.                                                        *)
(***************************************************************************)
\* return iter(self._all_input_protos)                      (classification)
\* return iter(self._all_input_protos), iter(self._annotation_protos)
\* return iter(self._all_input_protos), iter(self._mask_protos)
ReturnValue(v, inputs, annotations, masks) ==
  IF v = "classification" THEN <<inputs>>
  ELSE IF v = "detection" THEN <<inputs, annotations>>
  ELSE <<inputs, masks>>

\* The frame of a finished call is gone, and its locals with it.
LocalsGone ==
  /\ enum_count' = 0
  /\ i' = 0
  /\ item' = NoItem
  /\ input_id' = NoText
  /\ inner_next' = 0

\* Mutant of Raise: the exception is caught and what was accumulated so far
\* is returned.
RaiseCaught(err) ==
  /\ pc' = "returned"
  /\ outcomes' = Append(outcomes,
       [status |-> "returned", error |-> "none",
        value |-> ReturnValue(variant, all_input_protos, annotation_protos,
                              mask_protos)])
  /\ LocalsGone

\* An exception leaves _get_input_protos: nothing catches it and the caller
\* receives no value.
Raise(err) ==
  /\ pc' = "raised"
  /\ outcomes' = Append(outcomes, [status |-> "raised", error |-> err,
                                   value |-> <<>>])
  /\ LocalsGone

(***************************************************************************)
(* The caller calls _get_input_protos on the instance.                     *)
(***************************************************************************)
\* Mutant of Call: the buffers are created afresh by every call.
CallFreshBuffers ==
  /\ pc \in {"idle", "returned", "raised"}
  /\ calls < MaxCalls
  /\ calls' = calls + 1
  /\ pc' = "for"
  /\ all_input_protos' = <<>>
  /\ annotation_protos' = <<>>
  /\ mask_protos' = <<>>
  /\ UNCHANGED <<config, datagen, locals, outcomes>>

Call ==
  /\ pc \in {"idle", "returned", "raised"}
  /\ calls < MaxCalls
  /\ calls' = calls + 1
  /\ pc' = "for"
  /\ UNCHANGED <<config, datagen, buffers, locals, outcomes>>

(***************************************************************************)
(* for i, item in tqdm(enumerate(self.datagen_object), ...):               *)
(***************************************************************************)
\* Mutant of EnumIndex: a hand-kept position i + 1, which the inner loop's
\* use of i clobbers.
EnumIndexStale(count, stale_i) == IF count = 0 THEN 0 ELSE stale_i + 1

\* the index enumerate hands out with the next item
EnumIndex(count, stale_i) == count

NextItem ==
  /\ pc = "for"
  /\ ~datagen_exhausted
  /\ Len(datagen_yielded) < MaxSamples
  /\ \E it \in Items(variant) :
       /\ datagen_yielded' = Append(datagen_yielded, it)
       /\ item' = it
  /\ i' = EnumIndex(enum_count, i)
  /\ enum_count' = enum_count + 1
  /\ pc' = "body"
  /\ UNCHANGED <<config, datagen_exhausted, buffers, input_id, inner_next,
                 calls, outcomes>>

\* the iterator is exhausted: the loop ends and the method returns
StopIteration ==
  /\ pc = "for"
  /\ datagen_exhausted' = TRUE
  /\ pc' = "returned"
  /\ outcomes' = Append(outcomes,
       [status |-> "returned", error |-> "none",
        value |-> ReturnValue(variant, all_input_protos, annotation_protos,
                              mask_protos)])
  /\ LocalsGone
  /\ UNCHANGED <<config, datagen_yielded, buffers, calls>>

(***************************************************************************)
(* VisualClassificationDataset._get_input_protos, the loop body.           *)
(***************************************************************************)
ClassificationBody ==
  /\ pc = "body"
  /\ variant = "classification"
  /\ LET label == NormalizeLabel(item.label)
         id == InputId(dataset_id, split, i, item.id)
     IN  IF ~CanRead(item.image_path)
           THEN /\ Raise("FileNotFoundError")
                /\ UNCHANGED buffers
         ELSE IF ~AllStr(label)
           THEN /\ Raise("AttributeError")
                /\ UNCHANGED buffers
         ELSE /\ all_input_protos' = Append(all_input_protos,
                   ClassificationInputProto(item.image_path, label, id,
                                            dataset_id, EmptyStruct))
              /\ input_id' = id
              /\ pc' = "for"
              /\ UNCHANGED <<annotation_protos, mask_protos, enum_count, i,
                             item, inner_next, outcomes>>
  /\ UNCHANGED <<config, datagen, calls>>

(***************************************************************************)
(* VisualDetectionDataset._get_input_protos, the loop body.                *)
(***************************************************************************)
DetectionInput ==
  /\ pc = "body"
  /\ variant = "detection"
  /\ LET id == InputId(dataset_id, split, i, item.id)
     IN  IF ~CanRead(item.image_path)
           THEN /\ Raise("FileNotFoundError")
                /\ UNCHANGED buffers
         ELSE /\ all_input_protos' = Append(all_input_protos,
                   InputImageProto(item.image_path, id, dataset_id,
                                   LabelSplitStruct(item.classes, split)))
              /\ input_id' = id
              /\ inner_next' = 0
              /\ pc' = "inner"
              /\ UNCHANGED <<annotation_protos, mask_protos, enum_count, i,
                             item, outcomes>>
  /\ UNCHANGED <<config, datagen, calls>>

\* Mutant of DetectionRegion: a missing label is skipped, as in segmentation.
DetectionRegionLenient ==
  /\ pc = "inner"
  /\ variant = "detection"
  /\ inner_next < Len(item.bboxes)
  /\ i' = inner_next
  /\ inner_next' = inner_next + 1
  /\ IF inner_next >= Len(item.classes)
       THEN UNCHANGED annotation_protos
       ELSE annotation_protos' = Append(annotation_protos,
              create_annotation_proto(item.classes[inner_next + 1],
                                      item.bboxes[inner_next + 1],
                                      input_id, dataset_id))
  /\ UNCHANGED <<config, datagen, all_input_protos, mask_protos, pc,
                 enum_count, item, input_id, calls, outcomes>>

\* for i in range(len(bboxes)): one iteration
DetectionRegion ==
  /\ pc = "inner"
  /\ variant = "detection"
  /\ inner_next < Len(item.bboxes)
  /\ IF inner_next >= Len(item.classes)
       THEN \* labels[i]: IndexError
            /\ Raise("IndexError")
            /\ UNCHANGED buffers
       ELSE /\ i' = inner_next
            /\ inner_next' = inner_next + 1
            /\ annotation_protos' = Append(annotation_protos,
                 create_annotation_proto(item.classes[inner_next + 1],
                                         item.bboxes[inner_next + 1],
                                         input_id, dataset_id))
            /\ UNCHANGED <<all_input_protos, mask_protos, pc, enum_count,
                           item, input_id, outcomes>>
  /\ UNCHANGED <<config, datagen, calls>>

\* range(len(bboxes)) is exhausted: back to the outer loop
DetectionInnerDone ==
  /\ pc = "inner"
  /\ variant = "detection"
  /\ inner_next >= Len(item.bboxes)
  /\ pc' = "for"
  /\ UNCHANGED <<config, datagen, buffers, locals, calls, outcomes>>

(***************************************************************************)
(* VisualSegmentationDataset._get_input_protos, the loop body.             *)
(***************************************************************************)
SegmentationInput ==
  /\ pc = "body"
  /\ variant = "segmentation"
  /\ LET id == InputId(dataset_id, split, i, item.id)
     IN  IF ~CanRead(item.image_path)
           THEN /\ Raise("FileNotFoundError")
                /\ UNCHANGED buffers
         ELSE /\ all_input_protos' = Append(all_input_protos,
                   InputImageProto(item.image_path, id, dataset_id,
                                   LabelSplitStruct(item.classes, split)))
              /\ input_id' = id
              /\ inner_next' = 0
              /\ pc' = "inner"
              /\ UNCHANGED <<annotation_protos, mask_protos, enum_count, i,
                             item, outcomes>>
  /\ UNCHANGED <<config, datagen, calls>>

\* Mutant of SegmentationRegion: the IndexError of a missing label is not
\* caught, as in detection.
SegmentationRegionStrict ==
  /\ pc = "inner"
  /\ variant = "segmentation"
  /\ inner_next < Len(item.polygons)
  /\ IF inner_next >= Len(item.classes)
       THEN /\ Raise("IndexError")
            /\ UNCHANGED buffers
       ELSE /\ i' = inner_next
            /\ inner_next' = inner_next + 1
            /\ mask_protos' = Append(mask_protos,
                 create_mask_proto(item.classes[inner_next + 1],
                                   item.polygons[inner_next + 1],
                                   input_id, dataset_id))
            /\ UNCHANGED <<all_input_protos, annotation_protos, pc,
                           enum_count, item, input_id, outcomes>>
  /\ UNCHANGED <<config, datagen, calls>>

\* for i, _polygon in enumerate(_polygons): one iteration
SegmentationRegion ==
  /\ pc = "inner"
  /\ variant = "segmentation"
  /\ inner_next < Len(item.polygons)
  /\ i' = inner_next
  /\ inner_next' = inner_next + 1
  /\ IF inner_next >= Len(item.classes)
       THEN \* labels[i]: IndexError, caught: continue
            UNCHANGED mask_protos
       ELSE mask_protos' = Append(mask_protos,
              create_mask_proto(item.classes[inner_next + 1],
                                item.polygons[inner_next + 1],
                                input_id, dataset_id))
  /\ UNCHANGED <<config, datagen, all_input_protos, annotation_protos, pc,
                 enum_count, item, input_id, calls, outcomes>>

\* enumerate(_polygons) is exhausted: back to the outer loop
SegmentationInnerDone ==
  /\ pc = "inner"
  /\ variant = "segmentation"
  /\ inner_next >= Len(item.polygons)
  /\ pc' = "for"
  /\ UNCHANGED <<config, datagen, buffers, locals, calls, outcomes>>

Next ==
  \/ Call
  \/ NextItem
  \/ StopIteration
  \/ ClassificationBody
  \/ DetectionInput
  \/ DetectionRegion
  \/ DetectionInnerDone
  \/ SegmentationInput
  \/ SegmentationRegion
  \/ SegmentationInnerDone

Spec == Init /\ [][Next]_vars

TypeOK ==
  /\ pc \in {"idle", "for", "body", "inner", "returned", "raised"}
  /\ calls \in 0..MaxCalls
  /\ Len(datagen_yielded) <= MaxSamples
  /\ Len(outcomes) <= calls

(***************************************************************************)
(* Vocabulary of the properties.  A run is the first call on the fresh     *)
(* instance; its stream is datagen_yielded, the samples it drew.  In a run *)
(* the k-th InputRecord comes from the k-th sample: a sample whose image   *)
(* cannot be read ends the run.                                            *)
(***************************************************************************)
Min(a, b) == IF a <= b THEN a ELSE b

InRun == calls = 1
RunOver == calls = 1 /\ pc \in {"returned", "raised"}
RunReturned == RunOver /\ outcomes[1].status = "returned"
RunRaised == RunOver /\ outcomes[1].status = "raised"

Regional == variant \in {"detection", "segmentation"}
RegionBuffer == IF variant = "detection" THEN annotation_protos ELSE mask_protos
Shapes(it) == IF variant = "detection" THEN it.bboxes ELSE it.polygons

AllReadable(stream) ==
  \A k \in 1..Len(stream) : stream[k].image_path \in ReadableFiles
Aligned(it) == Len(it.classes) >= Len(Shapes(it))
AllAligned(stream) == \A k \in 1..Len(stream) : Aligned(stream[k])

RECURSIVE Flat(_)
\* <<k, j>> for j = 1..counts[k], for k = 1..Len(counts), in that order
Flat(counts) ==
  IF counts = <<>> THEN <<>>
  ELSE LET n == Len(counts)
       IN  Flat(SubSeq(counts, 1, n - 1))
             \o [j \in 1..counts[n] |-> <<n, j>>]

\* The <<sample, index>> every RegionRecord of the buffer should come from,
\* in a run: the indices that have both a shape and a label, of the samples
\* that have an InputRecord; of the sample in progress, those already passed.
Sources ==
  Flat([k \in 1..Len(all_input_protos) |->
          LET both == Min(Len(datagen_yielded[k].classes),
                          Len(Shapes(datagen_yielded[k])))
          IN  IF pc = "inner" /\ k = Len(all_input_protos)
                THEN Min(inner_next, both) ELSE both])

\* <<sample, index>> for every shape of every sample of the stream
AllShapes ==
  Flat([k \in 1..Len(datagen_yielded) |-> Len(Shapes(datagen_yielded[k]))])

\* the record r pairs shape j of sample k with label j of sample k
PairsBox(r, k, j) ==
  LET it == datagen_yielded[k]
      bb == r.regions[1].bounding_box
  IN  /\ Len(r.regions) = 1
      /\ <<bb.left_col, bb.top_row, bb.right_col, bb.bottom_row>> = it.bboxes[j]
      /\ Len(r.regions[1].concepts) = 1
      /\ r.regions[1].concepts[1].name = it.classes[j]

PairsPolygon(r, k, j) ==
  LET it == datagen_yielded[k]
      pts == r.regions[1].polygon
  IN  /\ Len(r.regions) = 1
      /\ Len(pts) = Len(it.polygons[j])
      /\ \A m \in 1..Len(pts) : <<pts[m].col, pts[m].row>> = it.polygons[j][m]
      /\ Len(r.regions[1].concepts) = 1
      /\ r.regions[1].concepts[1].name = it.classes[j]

(***************************************************************************)
(* C1.  Detection.                                                         *)
(***************************************************************************)
\* what a completed or failed detection run must look like, by C1
DetectionOutcomeOK ==
  IF AllAligned(datagen_yielded)
    THEN /\ outcomes[1].status = "returned"
         /\ LET shapes == AllShapes
            IN  /\ Len(annotation_protos) = Len(shapes)
                /\ \A m \in 1..Len(shapes) :
                     PairsBox(annotation_protos[m], shapes[m][1], shapes[m][2])
         /\ outcomes[1].value[2] = annotation_protos
    ELSE /\ outcomes[1].status = "raised"
         /\ outcomes[1].error = "IndexError"

\* C1 as stated: for every sample stream, a detection run completes with
\* exactly len(bboxes) regions per sample, bboxes[i] paired with classes[i] in
\* index order, if every sample has len(classes) >= len(bboxes), and raises
\* an out-of-range error otherwise.
C1_AsStated ==
  (variant = "detection" /\ RunOver) => DetectionOutcomeOK

\* C1 amended: the same, for every sample stream whose image files can all
\* be read.
C1_DetectionRegions ==
  (variant = "detection" /\ RunOver /\ AllReadable(datagen_yielded))
    => DetectionOutcomeOK

\* a completed detection run over two samples with three regions in all
C1_Witness ==
  /\ variant = "detection" /\ RunReturned
  /\ Len(datagen_yielded) = 2
  /\ AllAligned(datagen_yielded)
  /\ Len(annotation_protos) = 3

(***************************************************************************)
(* C2.  Segmentation.                                                      *)
(***************************************************************************)
SegmentationOutcomeOK ==
  /\ outcomes[1].status = "returned"
  /\ Len(all_input_protos) = Len(datagen_yielded)
  /\ LET src == Sources
     IN  /\ Len(mask_protos) = Len(src)
         /\ \A m \in 1..Len(src) :
              PairsPolygon(mask_protos[m], src[m][1], src[m][2])
  /\ outcomes[1].value[2] = mask_protos

\* C2 as stated: for every sample stream, a segmentation run raises no
\* error and emits, per sample, exactly the regions of the polygon indices
\* i < len(classes), in index order: min(len(classes), len(polygons)) of them.
C2_AsStated ==
  (variant = "segmentation" /\ RunOver) => SegmentationOutcomeOK

\* C2 amended: the same, for every sample stream whose image files can all
\* be read.
C2_SegmentationRegions ==
  (variant = "segmentation" /\ RunOver /\ AllReadable(datagen_yielded))
    => SegmentationOutcomeOK

\* a completed segmentation run whose first sample has two polygons and one
\* label, followed by a second sample that yields a region
C2_Witness ==
  /\ variant = "segmentation" /\ RunReturned
  /\ Len(datagen_yielded) = 2
  /\ Len(datagen_yielded[1].polygons) = 2
  /\ Len(datagen_yielded[1].classes) = 1
  /\ Len(mask_protos) = 2
  /\ mask_protos[2].input_id = all_input_protos[2].id

(***************************************************************************)
(* C3.  A second call on the same instance.                                *)
(***************************************************************************)
\* the first call completed over n >= 1 samples and a second call returned
TwiceRun ==
  /\ Len(outcomes) >= 2
  /\ outcomes[1].status = "returned"
  /\ Len(outcomes[1].value[1]) >= 1

\* C3 as stated: the sequences the second call returns contain no records.
C3_AsStated ==
  TwiceRun => /\ outcomes[2].status = "returned"
              /\ \A m \in 1..Len(outcomes[2].value) : outcomes[2].value[m] = <<>>

\* C3 amended: the second call draws no further sample and adds no record,
\* but it returns the accumulated buffers, so it hands back the same records
\* the first call returned, not empty sequences.
C3_SecondCallRepeats ==
  TwiceRun => /\ outcomes[2].status = "returned"
              /\ outcomes[2].value = outcomes[1].value
              /\ Len(outcomes[2].value[1]) = Len(datagen_yielded)
              /\ outcomes[2].value = ReturnValue(variant, all_input_protos,
                                                 annotation_protos, mask_protos)

\* two completed calls over a detection stream that produced regions
C3_Witness ==
  /\ TwiceRun
  /\ variant = "detection"
  /\ Len(outcomes[2].value[1]) = 2
  /\ Len(outcomes[2].value[2]) >= 1

(***************************************************************************)
(* C4.  Uniqueness of InputRecord ids within a run.                        *)
(***************************************************************************)
ExternalIdsDistinct(stream) ==
  \A k, m \in 1..Len(stream) :
    (k # m /\ stream[k].id.kind # "none" /\ stream[m].id.kind # "none")
      => stream[k].id # stream[m].id

\* C4: in a run over a stream whose external ids are pairwise distinct, no
\* two InputRecords of the accumulated output share an id.
C4_UniqueInputIds ==
  (InRun /\ ExternalIdsDistinct(datagen_yielded))
    => \A k, m \in 1..Len(all_input_protos) :
         k # m => all_input_protos[k].id # all_input_protos[m].id

(***************************************************************************)
(* C5.  Regions reference an earlier InputRecord.                          *)
(***************************************************************************)
\* C5: at every point of a detection or segmentation run, every RegionRecord
\* of the buffer carries the id of an InputRecord already in the input
\* buffer, namely that of the sample the region came from.
C5_RegionParent ==
  Regional =>
    /\ \A m \in 1..Len(RegionBuffer) :
         \E k \in 1..Len(all_input_protos) :
           all_input_protos[k].id = RegionBuffer[m].input_id
    /\ InRun =>
         LET src == Sources
         IN  /\ Len(RegionBuffer) = Len(src)
             /\ \A m \in 1..Len(src) :
                  RegionBuffer[m].input_id = all_input_protos[src[m][1]].id

\* inside the inner loop of the second sample, with regions of both samples
\* in the buffer and distinct ids
C5_Witness ==
  /\ Regional /\ InRun /\ pc = "inner"
  /\ Len(all_input_protos) = 2
  /\ all_input_protos[1].id # all_input_protos[2].id
  /\ Len(RegionBuffer) >= 2
  /\ RegionBuffer[1].input_id = all_input_protos[1].id
  /\ RegionBuffer[Len(RegionBuffer)].input_id = all_input_protos[2].id

(***************************************************************************)
(* C6.  Fatal errors.                                                      *)
(***************************************************************************)
Unreadable(it) == it.image_path \notin ReadableFiles
MissingLabel(it) == variant = "detection" /\ Len(it.classes) < Len(it.bboxes)
Fatal(it) == Unreadable(it) \/ MissingLabel(it)

LabelsOf(it) == IF it.label.kind = "list" THEN it.label.elems ELSE <<it.label>>

\* C7: a classification run over n samples with readable image files, each
\* label field a bare str or int label or a list of such labels, produces
\* exactly n InputRecords, the k-th with one concept of value 1 per label of
\* the k-th sample, and no RegionRecord.
C7_ClassificationCounts ==
  (variant = "classification" /\ RunOver /\ AllReadable(datagen_yielded))
    => /\ outcomes[1].status = "returned"
       /\ outcomes[1].value = <<all_input_protos>>
       /\ Len(all_input_protos) = Len(datagen_yielded)
       /\ \A k \in 1..Len(all_input_protos) :
            /\ Len(all_input_protos[k].concepts)
                 = Len(LabelsOf(datagen_yielded[k]))
            /\ \A m \in 1..Len(all_input_protos[k].concepts) :
                 all_input_protos[k].concepts[m].value = 1
       /\ annotation_protos = <<>>
       /\ mask_protos = <<>>

(***************************************************************************)
(* C8.  Concept ids.                                                       *)
(***************************************************************************)
Whitespace == {" ", "\t", "\n", "\r"}
Without(s, chars) == SelectSeq(s, LAMBDA c : c \notin chars)

\* <<k, m>> for every concept m of every InputRecord k
InputConcepts ==
  UNION { { <<k, m>> : m \in 1..Len(all_input_protos[k].concepts) } :
          k \in 1..Len(all_input_protos) }

\* the concept InputRecord k carries at m, and the label text it comes from
\* when that is known (in a run)
ConceptAt(km) == all_input_protos[km[1]].concepts[km[2]]
RegionConcept(m) == RegionBuffer[m].regions[1].concepts[1]

NamesFaithful ==
  InRun =>
    /\ variant = "classification" =>
         \A km \in InputConcepts :
           ConceptAt(km).name = LabelsOf(datagen_yielded[km[1]])[km[2]].s
    /\ Regional =>
         LET src == Sources
         IN  \A m \in 1..Len(src) :
               RegionConcept(m).name
                 = datagen_yielded[src[m][1]].classes[src[m][2]]

\* C8 as stated: every concept id is "id-" followed by the label text with
\* all of its whitespace removed, and the concept name is the label text.
C8_AsStated ==
  /\ \A km \in InputConcepts :
       ConceptAt(km).id
         = <<"i", "d", "-">> \o Without(ConceptAt(km).name, Whitespace)
  /\ Regional =>
       \A m \in 1..Len(RegionBuffer) :
         RegionConcept(m).id
           = <<"i", "d", "-">> \o Without(RegionConcept(m).name, Whitespace)
  /\ NamesFaithful

\* C8 amended: every concept id is "id-" followed by the label text with
\* all of its space characters (" ") removed, wherever they stand; other
\* whitespace such as a tab is kept.  The concept name is the label text.
C8_ConceptId ==
  /\ \A km \in InputConcepts :
       ConceptAt(km).id
         = <<"i", "d", "-">> \o Without(ConceptAt(km).name, {" "})
  /\ Regional =>
       \A m \in 1..Len(RegionBuffer) :
         RegionConcept(m).id
           = <<"i", "d", "-">> \o Without(RegionConcept(m).name, {" "})
  /\ NamesFaithful

\* an InputRecord carrying the concepts of "red car" and of a label with
\* leading and trailing spaces and a tab
C8_Witness ==
  /\ variant = "classification"
  /\ \E km \in InputConcepts :
       /\ ConceptAt(km).name = LabelRedCar
       /\ ConceptAt(km).id = <<"i", "d", "-", "r", "e", "d", "c", "a", "r">>
  /\ \E km \in InputConcepts :
       /\ ConceptAt(km).name = LabelTabbed
       /\ ConceptAt(km).id = <<"i", "d", "-", "a", "\t", "b">>

(***************************************************************************)
(* C9.  Input ids and order.                                               *)
(***************************************************************************)
ExpectedId(k) ==
  LET it == datagen_yielded[k]
  IN  IF it.id = PyNone
        THEN dataset_id \o <<"-">> \o split \o <<"-">> \o IntToStr(k - 1)
      ELSE IF it.id.kind = "int"
        THEN split \o <<"-">> \o IntToStr(it.id.n)
      ELSE split \o <<"-">> \o it.id.s

\* C9: after a completed run over n samples the InputRecord sequence has
\* length n and its k-th element is built from the k-th sample, with id
\* "{split}-{external id}" if the sample has an external id and
\* "{dataset_id}-{split}-{k}" (k zero-based) otherwise.
C9_InputIds ==
  RunReturned =>
    /\ Len(all_input_protos) = Len(datagen_yielded)
    /\ outcomes[1].value[1] = all_input_protos
    /\ \A k \in 1..Len(all_input_protos) :
         /\ all_input_protos[k].id = ExpectedId(k)
         /\ all_input_protos[k].image = datagen_yielded[k].image_path
         /\ all_input_protos[k].dataset_ids = <<dataset_id>>

\* a completed detection run: the first sample has an external id and two
\* boxes, the second has no external id and gets position 1
C9_Witness ==
  /\ variant = "detection" /\ RunReturned
  /\ Len(datagen_yielded) = 2
  /\ datagen_yielded[1].id # PyNone
  /\ Len(datagen_yielded[1].bboxes) = 2
  /\ datagen_yielded[2].id = PyNone
  /\ all_input_protos[2].id = dataset_id \o <<"-">> \o split \o <<"-", "1">>

(***************************************************************************)
(* C10.  Coordinate order.                                                 *)
(***************************************************************************)
\* C10: every detection RegionRecord serialises its box [x_min, y_min,
\* x_max, y_max] as top=y_min, left=x_min, bottom=y_max, right=x_max; every
\* segmentation RegionRecord serialises the points [x, y] of its polygon as
\* row=y, col=x, visibility VISIBLE, in input order and count.
C10_Coordinates ==
  (Regional /\ InRun) =>
    LET src == Sources
    IN
    /\ Len(RegionBuffer) = Len(src)
    /\ \A m \in 1..Len(src) :
         LET it == datagen_yielded[src[m][1]]
             j == src[m][2]
             region == RegionBuffer[m].regions[1]
         IN  IF variant = "detection"
               THEN region.bounding_box =
                      [top_row |-> it.bboxes[j][2], left_col |-> it.bboxes[j][1],
                       bottom_row |-> it.bboxes[j][4],
                       right_col |-> it.bboxes[j][3]]
               ELSE region.polygon =
                      [p \in 1..Len(it.polygons[j]) |->
                         [row |-> it.polygons[j][p][2],
                          col |-> it.polygons[j][p][1],
                          visibility |-> "VISIBLE"]]

\* the box [10, 20, 30, 40] serialised as top=20, left=10, bottom=40, right=30
C10_Witness ==
  /\ variant = "detection" /\ InRun
  /\ \E m \in 1..Len(annotation_protos) :
       /\ m <= Len(Sources)
       /\ datagen_yielded[Sources[m][1]].bboxes[Sources[m][2]]
            = <<10, 20, 30, 40>>
       /\ annotation_protos[m].regions[1].bounding_box =
            [top_row |-> 20, left_col |-> 10, bottom_row |-> 40,
             right_col |-> 30]

=============================================================================
